---- MODULE Spec2Model ----
(***************************************************************************)
(* Job lifecycle and coordinate tracking of the LogiTracker API backend.   *)
(*                                                                         *)
(* The state is the Job collection, the User collection and the response   *)
(* of the request handled last.  Every controller handler is one action;   *)
(* query strings, route parameters and request bodies are drawn from the   *)
(* small input sets below.                                                 *)
(*                                                                         *)
(* Representation                                                          *)
(*   - a JSON scalar is a record [t, n, s]: t = "undef" (field missing),   *)
(*     t = "num" (a number, n in thousandths of a degree), t = "str" (a    *)
(*     string, s its characters);                                          *)
(*   - an id is [wf, key]: wf says whether Mongoose can cast the text to   *)
(*     an ObjectId (24 hex characters), key tells ids apart;               *)
(*   - the _id of the k-th document inserted into the Job collection has   *)
(*     key k, and documents are never removed, so the collection is a      *)
(*     sequence indexed by key.                                            *)
(***************************************************************************)
EXTENDS Integers, Sequences, FiniteSets, TLC

\* Largest number of documents the Job collection holds in the model.
MaxJobs == 1

----------------------------------------------------------------------------
(* JSON scalars                                                            *)

Undef == [t |-> "undef", n |-> 0, s |-> << >>]
Num(milli) == [t |-> "num", n |-> milli, s |-> << >>]
Str(chars) == [t |-> "str", n |-> 0, s |-> chars]

DigitChars == {"0", "1", "2", "3", "4", "5", "6", "7", "8", "9"}

DigitVal(c) ==
    CASE c = "0" -> 0 [] c = "1" -> 1 [] c = "2" -> 2 [] c = "3" -> 3
      [] c = "4" -> 4 [] c = "5" -> 5 [] c = "6" -> 6 [] c = "7" -> 7
      [] c = "8" -> 8 [] c = "9" -> 9

RECURSIVE Pow10(_)
Pow10(k) == IF k = 0 THEN 1 ELSE 10 * Pow10(k - 1)

\* Index of the first character of s at or after i that is not white space.
RECURSIVE SkipSpace(_, _)
SkipSpace(s, i) ==
    IF i <= Len(s) /\ s[i] = " " THEN SkipSpace(s, i + 1) ELSE i

\* Number of consecutive decimal digits of s starting at index i.
RECURSIVE DigitRun(_, _)
DigitRun(s, i) ==
    IF i <= Len(s) /\ s[i] \in DigitChars THEN 1 + DigitRun(s, i + 1) ELSE 0

\* Value of the k decimal digits of s starting at index i.
RECURSIVE DigitsValue(_, _, _)
DigitsValue(s, i, k) ==
    IF k = 0 THEN 0
    ELSE 10 * DigitsValue(s, i, k - 1) + DigitVal(s[i + k - 1])

NaN == [nan |-> TRUE, num |-> 0, den |-> 1]

\* parseFloat of a string: leading white space, an optional sign, the
\* longest prefix of the form digits[.digits] or .digits; anything after it
\* is ignored, and no such prefix gives NaN.  The value is the exact
\* rational num/den.  (The input strings carry no exponent part.)
ParseFloatChars(s) ==
    LET i0   == SkipSpace(s, 1)
        neg  == i0 <= Len(s) /\ s[i0] = "-"
        i1   == IF i0 <= Len(s) /\ s[i0] \in {"-", "+"} THEN i0 + 1 ELSE i0
        ni   == DigitRun(s, i1)
        dot  == i1 + ni <= Len(s) /\ s[i1 + ni] = "."
        nf   == IF dot THEN DigitRun(s, i1 + ni + 1) ELSE 0
        mag  == DigitsValue(s, i1, ni) * Pow10(nf)
                  + DigitsValue(s, i1 + ni + 1, nf)
    IN IF ni = 0 /\ nf = 0 THEN NaN
       ELSE [nan |-> FALSE, num |-> IF neg THEN 0 - mag ELSE mag,
             den |-> Pow10(nf)]

\* parseFloat(v): a number is converted to its decimal text and parsed
\* back, which gives the same number; undefined reads as "undefined".
parseFloat(v) ==
    CASE v.t = "num" -> [nan |-> FALSE, num |-> v.n, den |-> 1000]
      [] v.t = "str" -> ParseFloatChars(v.s)
      [] OTHER -> NaN

\* Variant: the comparison is strict.
GeMilli_Strict(x, milli) == x.num * 1000 > milli * x.den

\* x >= milli/1000 and x <= milli/1000 for a parsed number x.
GeMilli(x, milli) == x.num * 1000 >= milli * x.den
LeMilli(x, milli) == x.num * 1000 <= milli * x.den

----------------------------------------------------------------------------
(* Geofence                                                                *)

MinLatitude == 26347
MaxLatitude == 30447
MinLongitude == 80058
MaxLongitude == 88201

\* Variant: the eastern bound is not checked.
isWithinNepal_NoEastBound(lat, lon) ==
    LET latitude  == parseFloat(lat)
        longitude == parseFloat(lon)
    IN IF latitude.nan \/ longitude.nan THEN FALSE
       ELSE /\ GeMilli(latitude, MinLatitude)
            /\ LeMilli(latitude, MaxLatitude)
            /\ GeMilli(longitude, MinLongitude)

isWithinNepal(lat, lon) ==
    LET latitude  == parseFloat(lat)
        longitude == parseFloat(lon)
    IN IF latitude.nan \/ longitude.nan THEN FALSE
       ELSE /\ GeMilli(latitude, MinLatitude)
            /\ LeMilli(latitude, MaxLatitude)
            /\ GeMilli(longitude, MinLongitude)
            /\ LeMilli(longitude, MaxLongitude)

----------------------------------------------------------------------------
(* Ids, documents and requests                                             *)

\* A route parameter or body field holding an id.  def = FALSE is a missing
\* field; wf says the text is 24 hexadecimal characters.
NoId == [def |-> FALSE, wf |-> FALSE, key |-> 0]
OidText(k) == [def |-> TRUE, wf |-> TRUE, key |-> k]
BadIdText == [def |-> TRUE, wf |-> FALSE, key |-> 0]

\* mongoose.Types.ObjectId.isValid
ObjectIdIsValid(id) == id.def /\ id.wf

\* A pickupInfo / dropoffInfo / currentCoords object; def = FALSE when the
\* body has no such member.
NoLoc == [def |-> FALSE, latitude |-> Undef, longitude |-> Undef]
Loc(lat, lon) == [def |-> TRUE, latitude |-> lat, longitude |-> lon]
EmptyLoc == Loc(Undef, Undef)

\* A missing status member of a body.
NoStatus == "(undefined)"

\* A missing driverInfo member of a body.
NoDriverInfo == [def |-> FALSE, id |-> NoId]
DriverInfo(id) == [def |-> TRUE, id |-> id]

\* The enumeration and the default of the status path of the Job schema.
JobStatusEnum == {"pending", "in-transit", "delayed", "delivered"}
JobStatusDefault == "pending"

\* Keys of the users of the directory, and the key of an id that is well
\* formed but belongs to nobody ('123456789012345678901234' in the tests).
DriverKey == 1
AdminKey == 2
GhostKey == 9
UserKeys == {DriverKey, AdminKey}

VARIABLES
    users,   \* User collection: user key -> role
    jobs,    \* Job collection: sequence of documents, _id key = index
    resp,    \* the request handled last and the response sent for it
    calls    \* the requests taken in, in order of arrival, each with the
             \* position of its handler (used where handlers interleave)

vars == <<users, jobs, resp, calls>>

----------------------------------------------------------------------------
(* Store primitives (Mongoose models)                                      *)

\* User.findById: the role of the user, or "null".  An id that cannot be
\* cast never gets here (isValid is checked first).
UserFindById(us, id) ==
    IF id.key \in DOMAIN us THEN us[id.key] ELSE "null"

\* Job.findById / findByIdAndUpdate cast the id first: text that is not an
\* ObjectId raises a CastError.
JobCastFails(jobId) == ~ObjectIdIsValid(jobId)
JobExists(js, jobId) == ObjectIdIsValid(jobId) /\ jobId.key \in 1..Len(js)

\* Schema validation on save: status must be in the enumeration.
JobSchemaAccepts(doc) == doc.status \in JobStatusEnum

\* new Job({...}): the members are kept as sent and the schema default
\* fills in a missing status.
NewJob(driverInfo, pickupInfo, dropoffInfo, currentCoords, status, key) ==
    [_id |-> key,
     driverInfo |-> driverInfo,
     pickupInfo |-> pickupInfo,
     dropoffInfo |-> dropoffInfo,
     currentCoords |-> currentCoords,
     status |-> IF status = NoStatus THEN JobStatusDefault ELSE status,
     createdAt |-> key]

----------------------------------------------------------------------------
(* Responses                                                               *)

NoBody == [none |-> TRUE]
NoReq == [none |-> TRUE]

\* op, jobId and req are the request; code, message, error and body the
\* response.  before is history: the addressed document as the request
\* found it (the handlers never see it, findByIdAndUpdate returns the
\* updated document).
Response(op, jobId, req, code, message, error, body) ==
    [op |-> op, jobId |-> jobId, req |-> req, code |-> code,
     message |-> message, error |-> error, body |-> body,
     before |-> NoBody]

Before(js, jobId) ==
    IF ObjectIdIsValid(jobId) /\ jobId.key \in 1..Len(js) THEN js[jobId.key]
    ELSE NoBody

GeofenceMessage == "Pickup or Dropoff coordinates must be within Nepal."
TypeErrorMessage == "Cannot read properties of undefined"
ValidationMessage == "Job validation failed"
CastErrorMessage == "Cast to ObjectId failed"

----------------------------------------------------------------------------
(* jobController.createJob                                                 *)

\* Variant: the error is thrown only when both places are out of the region.
validateNepalCoordinates_BothOut(pickupInfo, dropoffInfo) ==
    IF ~pickupInfo.def \/ ~dropoffInfo.def THEN TypeErrorMessage
    ELSE LET pickupValid  == isWithinNepal(pickupInfo.latitude,
                                           pickupInfo.longitude)
             dropoffValid == isWithinNepal(dropoffInfo.latitude,
                                           dropoffInfo.longitude)
         IN IF ~pickupValid /\ ~dropoffValid THEN GeofenceMessage ELSE "ok"

\* validateNepalCoordinates: "ok", or the message of the error thrown.
\* Reading .latitude of a missing pickupInfo / dropoffInfo is a TypeError,
\* pickupInfo being read first.
validateNepalCoordinates(pickupInfo, dropoffInfo) ==
    IF ~pickupInfo.def \/ ~dropoffInfo.def THEN TypeErrorMessage
    ELSE LET pickupValid  == isWithinNepal(pickupInfo.latitude,
                                           pickupInfo.longitude)
             dropoffValid == isWithinNepal(dropoffInfo.latitude,
                                           dropoffInfo.longitude)
         IN IF ~pickupValid \/ ~dropoffValid THEN GeofenceMessage ELSE "ok"

\* Variant: only the existence of the user is checked.
isDriverUser_AnyRole(driver) == driver # "null"

\* if (!driver || driver.role != 'driver') is the negation of this.
isDriverUser(driver) == driver # "null" /\ driver = "driver"

\* Variant: pickupInfo and dropoffInfo change places.
createJobDocument_Swapped(req, key) ==
    NewJob(req.driverInfo, req.dropoffInfo, req.pickupInfo,
           req.currentCoords, req.status, key)

\* The document createJob builds from the request body.
createJobDocument(req, key) ==
    NewJob(req.driverInfo, req.pickupInfo, req.dropoffInfo,
           req.currentCoords, req.status, key)

\* The outcome of createJob on body req: the response and the collection.
createJobOutcome(us, js, req) ==
    LET R(code, message, error, body) ==
            Response("createJob", NoId, req, code, message, error, body)
        driver == UserFindById(us, req.driverInfo.id)
        geo == validateNepalCoordinates(req.pickupInfo, req.dropoffInfo)
        newJob == createJobDocument(req, Len(js) + 1)
    IN IF ~req.driverInfo.def
         THEN [resp |-> R(500, "Failed to create job", TypeErrorMessage, NoBody),
               jobs |-> js]
       ELSE IF ~ObjectIdIsValid(req.driverInfo.id)
         THEN [resp |-> R(400, "Invalid driver ID", "", NoBody), jobs |-> js]
       ELSE IF ~isDriverUser(driver)
         THEN [resp |-> R(400, "Invalid or Non-driver User", "", NoBody),
               jobs |-> js]
       ELSE IF geo # "ok"
         THEN [resp |-> R(500, "Failed to create job", geo, NoBody),
               jobs |-> js]
       ELSE IF ~JobSchemaAccepts(newJob)
         THEN [resp |-> R(500, "Failed to create job", ValidationMessage, NoBody),
               jobs |-> js]
       ELSE [resp |-> R(201, "", "", newJob), jobs |-> Append(js, newJob)]

----------------------------------------------------------------------------
(* jobController.getJobById                                                *)

getJobByIdResponse(js, jobId) ==
    LET R(code, message, body) ==
            Response("getJobById", jobId, NoReq, code, message, "", body)
    IN IF JobCastFails(jobId) THEN R(500, "Internal Server Error", NoBody)
       ELSE IF ~JobExists(js, jobId) THEN R(404, "Job Not Found", NoBody)
       ELSE R(200, "", js[jobId.key])

----------------------------------------------------------------------------
(* jobController.updateStatus                                              *)

\* Variant: the list has one more entry.
UpdatableStatuses_Extra ==
    {"pending", "in-transit", "delayed", "delivered", "cancelled", "bogus"}

\* The list updateStatus checks the body's status against.
UpdatableStatuses ==
    {"pending", "in-transit", "delayed", "delivered", "cancelled"}

\* !status: a missing status and the empty string are both falsy.
Falsy(status) == status = NoStatus \/ status = ""

\* Variant: only a missing status is refused.
isValidStatus_OnlyMissing(status) == ~Falsy(status)

\* if (!status || ![...].includes(status)) is the negation of this.
isValidStatus(status) == ~Falsy(status) /\ status \in UpdatableStatuses

\* Variant: delivered and cancelled are final, the update leaves them.
SetStatus_FinalStatuses(js, key, status) ==
    IF js[key].status \in {"delivered", "cancelled"} THEN js
    ELSE [js EXCEPT ![key].status = status]

\* Variant: the document is written back whole from a copy read before,
\* without the position.
SetStatus_Resave(js, key, status) ==
    [js EXCEPT ![key].status = status, ![key].currentCoords = NoLoc]

\* The update {status} applied to the document with the given key.
SetStatus(js, key, status) == [js EXCEPT ![key].status = status]

\* Variant: the update is an upsert, a document is inserted when none
\* matches.
findByIdAndUpdateStatus_Upsert(js, jobId, status) ==
    IF JobExists(js, jobId)
    THEN [jobs |-> SetStatus(js, jobId.key, status),
          doc |-> SetStatus(js, jobId.key, status)[jobId.key]]
    ELSE [jobs |-> Append(js, [_id |-> Len(js) + 1, status |-> status]),
          doc |-> [_id |-> Len(js) + 1, status |-> status]]

\* Variant: a job that is cancelled is removed from the collection.
findByIdAndUpdateStatus_CancelDeletes(js, jobId, status) ==
    IF JobExists(js, jobId)
    THEN [jobs |-> IF status = "cancelled"
                   THEN SelectSeq(js, LAMBDA d : d._id # jobId.key)
                   ELSE SetStatus(js, jobId.key, status),
          doc |-> SetStatus(js, jobId.key, status)[jobId.key]]
    ELSE [jobs |-> js, doc |-> NoBody]

\* Job.findByIdAndUpdate(jobId, {status}, {new: true}): one atomic update of
\* the matching document; with no upsert option nothing is inserted when no
\* document matches and the result is null.
findByIdAndUpdateStatus(js, jobId, status) ==
    IF JobExists(js, jobId)
    THEN [jobs |-> SetStatus(js, jobId.key, status),
          doc |-> SetStatus(js, jobId.key, status)[jobId.key]]
    ELSE [jobs |-> js, doc |-> NoBody]

updateStatusOutcome(js, jobId, status) ==
    LET R(code, message, body) ==
            [Response("updateStatus", jobId, [status |-> status], code,
                      message, "", body)
               EXCEPT !.before = Before(js, jobId)]
        updated == findByIdAndUpdateStatus(js, jobId, status)
    IN IF ~isValidStatus(status)
         THEN [resp |-> R(400, "Invalid or missing status", NoBody),
               jobs |-> js]
       ELSE IF JobCastFails(jobId)
         THEN [resp |-> R(500, "Internal Server error", NoBody), jobs |-> js]
       ELSE IF updated.doc = NoBody
         THEN [resp |-> R(404, "Job Not Found", NoBody),
               jobs |-> updated.jobs]
       ELSE [resp |-> R(200, "job Updated Successfully", updated.doc),
             jobs |-> updated.jobs]

----------------------------------------------------------------------------
(* updateLiveCoordinate / getLiveCoordinate                                *)

\* Variant: a position already stored is kept.
SetCurrentCoords_KeepFirst(js, key, currentCoords) ==
    IF currentCoords.def /\ ~js[key].currentCoords.def
    THEN [js EXCEPT ![key].currentCoords = currentCoords]
    ELSE js

\* Variant: the two fields are written apart, and the longitude of a
\* position stored meanwhile survives the write.
SetCurrentCoords_Torn(js, key, currentCoords) ==
    IF ~currentCoords.def THEN js
    ELSE IF js[key].currentCoords.def
      THEN [js EXCEPT ![key].currentCoords =
                          Loc(currentCoords.latitude,
                              js[key].currentCoords.longitude)]
    ELSE [js EXCEPT ![key].currentCoords = currentCoords]

\* The update {currentCoords} applied to the document with the given key:
\* the member is replaced as a whole.  A member whose value is undefined is
\* dropped from the update, so a body without currentCoords changes
\* nothing.
SetCurrentCoords(js, key, currentCoords) ==
    IF currentCoords.def THEN [js EXCEPT ![key].currentCoords = currentCoords]
    ELSE js

\* Variant: the payload is merged into the stored member field by field.
findByIdAndUpdateCoords_Merge(js, jobId, currentCoords) ==
    LET old == js[jobId.key].currentCoords
        merged ==
            Loc(IF currentCoords.latitude = Undef THEN old.latitude
                ELSE currentCoords.latitude,
                IF currentCoords.longitude = Undef THEN old.longitude
                ELSE currentCoords.longitude)
        new == IF currentCoords.def
               THEN [js EXCEPT ![jobId.key].currentCoords = merged]
               ELSE js
    IN IF JobExists(js, jobId)
       THEN [jobs |-> new, doc |-> new[jobId.key]]
       ELSE [jobs |-> js, doc |-> NoBody]

\* Variant: a document is inserted when none has the id.
findByIdAndUpdateCoords_Upsert(js, jobId, currentCoords) ==
    IF JobExists(js, jobId)
    THEN [jobs |-> SetCurrentCoords(js, jobId.key, currentCoords),
          doc |-> SetCurrentCoords(js, jobId.key, currentCoords)[jobId.key]]
    ELSE LET doc == NewJob(NoDriverInfo, NoLoc, NoLoc, currentCoords,
                           NoStatus, Len(js) + 1)
         IN [jobs |-> Append(js, doc), doc |-> doc]

\* Job.findByIdAndUpdate(jobId, {currentCoords}, {new: true}).
findByIdAndUpdateCoords(js, jobId, currentCoords) ==
    IF JobExists(js, jobId)
    THEN [jobs |-> SetCurrentCoords(js, jobId.key, currentCoords),
          doc |-> SetCurrentCoords(js, jobId.key, currentCoords)[jobId.key]]
    ELSE [jobs |-> js, doc |-> NoBody]

\* Variant: a position outside the region is refused as createJob refuses
\* a place outside it.
updateLiveCoordinateOutcome_Geofenced(js, jobId, currentCoords) ==
    LET R(code, message, body) ==
            [Response("updateLiveCoordinate", jobId,
                      [currentCoords |-> currentCoords], code, message, "",
                      body)
               EXCEPT !.before = Before(js, jobId)]
        updated == findByIdAndUpdateCoords(js, jobId, currentCoords)
    IN IF JobCastFails(jobId)
         THEN [resp |-> R(500, "Internal Server Error", NoBody), jobs |-> js]
       ELSE IF /\ currentCoords.def
               /\ ~isWithinNepal(currentCoords.latitude,
                                 currentCoords.longitude)
         THEN [resp |-> R(500, "Internal Server Error", NoBody), jobs |-> js]
       ELSE IF updated.doc = NoBody
         THEN [resp |-> R(404, "Job not found", NoBody),
               jobs |-> updated.jobs]
       ELSE [resp |-> R(200, "Job updated successfully", updated.doc),
             jobs |-> updated.jobs]

\* Variant: a position is accepted only while the job is in transit.
updateLiveCoordinateOutcome_OnlyInTransit(js, jobId, currentCoords) ==
    LET R(code, message, body) ==
            [Response("updateLiveCoordinate", jobId,
                      [currentCoords |-> currentCoords], code, message, "",
                      body)
               EXCEPT !.before = Before(js, jobId)]
        updated == findByIdAndUpdateCoords(js, jobId, currentCoords)
    IN IF JobCastFails(jobId)
         THEN [resp |-> R(500, "Internal Server Error", NoBody), jobs |-> js]
       ELSE IF JobExists(js, jobId) /\ js[jobId.key].status # "in-transit"
         THEN [resp |-> R(400, "Job is not in transit", NoBody), jobs |-> js]
       ELSE IF updated.doc = NoBody
         THEN [resp |-> R(404, "Job not found", NoBody),
               jobs |-> updated.jobs]
       ELSE [resp |-> R(200, "Job updated successfully", updated.doc),
             jobs |-> updated.jobs]

\* PATCH updateCoord/:jobId: the handler, from the Job collection js to the
\* response and the collection after it.
updateLiveCoordinateOutcome(js, jobId, currentCoords) ==
    LET R(code, message, body) ==
            [Response("updateLiveCoordinate", jobId,
                      [currentCoords |-> currentCoords], code, message, "",
                      body)
               EXCEPT !.before = Before(js, jobId)]
        updated == findByIdAndUpdateCoords(js, jobId, currentCoords)
    IN IF JobCastFails(jobId)
         THEN [resp |-> R(500, "Internal Server Error", NoBody), jobs |-> js]
       ELSE IF updated.doc = NoBody
         THEN [resp |-> R(404, "Job not found", NoBody),
               jobs |-> updated.jobs]
       ELSE [resp |-> R(200, "Job updated successfully", updated.doc),
             jobs |-> updated.jobs]

\* Variant: a job without a position is answered as an error.
getLiveCoordinateResponse_UnsetIsError(js, jobId) ==
    LET R(code, message, body) ==
            Response("getLiveCoordinate", jobId, NoReq, code, message, "",
                     body)
    IN IF JobCastFails(jobId) THEN R(500, "internal server error", NoBody)
       ELSE IF ~JobExists(js, jobId) THEN R(404, "Job Not found", NoBody)
       ELSE IF ~js[jobId.key].currentCoords.def
         THEN R(404, "Job Not found", NoBody)
       ELSE R(200, "", [coordinate |-> js[jobId.key].currentCoords])

\* The body of a successful getLiveCoordinate is {coordinate: currentCoords}.
getLiveCoordinateResponse(js, jobId) ==
    LET R(code, message, body) ==
            Response("getLiveCoordinate", jobId, NoReq, code, message, "",
                     body)
    IN IF JobCastFails(jobId) THEN R(500, "internal server error", NoBody)
       ELSE IF ~JobExists(js, jobId) THEN R(404, "Job Not found", NoBody)
       ELSE R(200, "", [coordinate |-> js[jobId.key].currentCoords])

----------------------------------------------------------------------------
(* getCoordinates / getAllCoordinates                                      *)

\* GET getCoord/:jobId: the pickup and dropoff pairs of the job.  Reading a
\* coordinate of a place the document lacks throws, which the catch
\* answers with 500.
getCoordinatesResponse(js, jobId) ==
    LET R(code, message, body) ==
            Response("getCoordinates", jobId, NoReq, code, message, "", body)
    IN IF JobCastFails(jobId) THEN R(500, "Internal Server Error", NoBody)
       ELSE IF ~JobExists(js, jobId) THEN R(404, "Job not found", NoBody)
       ELSE IF ~js[jobId.key].pickupInfo.def \/ ~js[jobId.key].dropoffInfo.def
         THEN R(500, "Internal Server Error", NoBody)
       ELSE R(200, "Coordinates fetched successfully",
              [pickupCoordinates |->
                   Loc(js[jobId.key].pickupInfo.latitude,
                       js[jobId.key].pickupInfo.longitude),
               dropoffCoordinates |->
                   Loc(js[jobId.key].dropoffInfo.latitude,
                       js[jobId.key].dropoffInfo.longitude)])

\* GET getAllCoord/:jobId: the three places of the job.
getAllCoordinatesResponse(js, jobId) ==
    LET R(code, message, body) ==
            Response("getAllCoordinates", jobId, NoReq, code, message, "",
                     body)
    IN IF JobCastFails(jobId) THEN R(500, "Internal Server Error", NoBody)
       ELSE IF ~JobExists(js, jobId) THEN R(404, "Job not found", NoBody)
       ELSE R(200, "Job coordinates fetched successfully",
              [jobId |-> js[jobId.key]._id,
               pickupInfo |-> js[jobId.key].pickupInfo,
               dropoffInfo |-> js[jobId.key].dropoffInfo,
               currentCoords |-> js[jobId.key].currentCoords])

----------------------------------------------------------------------------
(* getJobs                                                                 *)

\* A query parameter that is absent; like the empty text it is falsy.
NoText == << >>

\* Case folding of the flag 'i', for the letters the names are written in.
Lower(c) ==
    CASE c = "A" -> "a" [] c = "D" -> "d" [] c = "M" -> "m" [] c = "R" -> "r"
      [] OTHER -> c

\* new RegExp(search, 'i') throws a SyntaxError for a pattern with a group
\* or a class that is not closed.  (The terms are written with letters,
\* ".", "(" and "[", so a "(" or "[" is never closed.)
RegExpThrows(pattern) ==
    \E i \in 1..Len(pattern) : pattern[i] \in {"(", "["}

\* The pattern, read as a regular expression, matches the text at index i:
\* "." stands for any character, a letter for itself in either case.
RegExpMatchesAt(pattern, text, i) ==
    \A j \in 1..Len(pattern) :
        /\ i + j - 1 <= Len(text)
        /\ pattern[j] = "." \/ Lower(pattern[j]) = Lower(text[i + j - 1])

\* regex.test(text), the pattern not being anchored.
RegExpTest(pattern, text) ==
    \E i \in 1..(Len(text) + 1) : RegExpMatchesAt(pattern, text, i)

\* The texts of the six paths of the $or that the document has:
\* pickupInfo.name, dropoffInfo.name, pickupInfo.email, dropoffInfo.phone,
\* driverInfo.name, driverInfo.phone.  The documents carry driverInfo.name
\* only.
SearchedTexts(doc) ==
    IF "name" \in DOMAIN doc.driverInfo THEN {doc.driverInfo.name} ELSE {}

\* The document satisfies the query getJobs builds.
MatchesQuery(doc, status, search) ==
    /\ (status # NoStatus /\ status # "") => doc.status = status
    /\ search # NoText => \E text \in SearchedTexts(doc) : RegExpTest(search, text)

\* Variant: oldest first.
RECURSIVE SortByCreatedAt_Ascending(_)
SortByCreatedAt_Ascending(docs) ==
    IF docs = {} THEN << >>
    ELSE LET first == CHOOSE d \in docs :
                          \A e \in docs : e.createdAt >= d.createdAt
         IN <<first>> \o SortByCreatedAt_Ascending(docs \ {first})

\* .sort({createdAt: -1}): newest first.
RECURSIVE SortByCreatedAt(_)
SortByCreatedAt(docs) ==
    IF docs = {} THEN << >>
    ELSE LET first == CHOOSE d \in docs :
                          \A e \in docs : e.createdAt <= d.createdAt
         IN <<first>> \o SortByCreatedAt(docs \ {first})

\* GET /job?status=&search=.  The body of the 200 is the array itself,
\* kept here as the member list.
getJobsResponse(js, status, search) ==
    LET R(code, message, error, body) ==
            Response("getJobs", NoId, [status |-> status, search |-> search],
                     code, message, error, body)
        found == {js[k] : k \in {n \in 1..Len(js) :
                                     MatchesQuery(js[n], status, search)}}
    IN IF search # NoText /\ RegExpThrows(search)
       THEN R(500, "Failed to fetch jobs", "Invalid regular expression",
              NoBody)
       ELSE R(200, "", "", [list |-> SortByCreatedAt(found)])

----------------------------------------------------------------------------
(* jobController.getJobsForDriver and the summary of the job router        *)

\* The first copy of the handler in the file: it destructures
\* req.params.id, which no route of the router sets, ahead of the try
\* block, so the handler throws instead of answering with the jobs.
getJobsForDriverResponses_ParamsId(js, driverId) ==
    {Response("getJobsForDriver", NoId, [driverId |-> driverId], 500,
              "", TypeErrorMessage, NoBody)}

\* GET /job/getJobForDriver/:driverId, the copy of the handler the module
\* exports last.  The answers the handler can give: the filter
\* {'driverInfo.id': driverId} is an equality on the stored id, and for text
\* that is not an ObjectId the cast of the filter depends on the type the
\* schema gives driverInfo.id: a String path compares (and matches no
\* stored driver), an ObjectId path raises a CastError.
getJobsForDriverResponses(js, driverId) ==
    LET R(code, message, error, body) ==
            Response("getJobsForDriver", NoId, [driverId |-> driverId],
                     code, message, error, body)
        found == {js[k] : k \in {n \in 1..Len(js) :
                                     js[n].driverInfo.id = driverId}}
    IN IF ~driverId.def
         THEN {R(400, "driverId parameter is required", "", NoBody)}
       ELSE IF ~driverId.wf
         THEN {R(200, "", "", [list |-> << >>]),
               R(500, "Failed to fetch jobs", CastErrorMessage, NoBody)}
       ELSE {R(200, "", "", [list |-> SortByCreatedAt(found)])}

\* Variant: the count ignores the status.
countDocuments_All(js, status) == Len(js)

\* Number of documents of the collection with the status.
countDocuments(js, status) ==
    Cardinality({k \in 1..Len(js) : js[k].status = status})

\* GET /jobs/summary: the count of the pending jobs and the count of the
\* jobs in transit.
getSummaryResponse(js) ==
    Response("getSummary", NoId, NoReq, 200, "", "",
             [pending |-> countDocuments(js, "pending"),
              inTransit |-> countDocuments(js, "in-transit")])

----------------------------------------------------------------------------
(* Bearer credentials and the route middleware                             *)

\* The Authorization header of a request: absent, not of the form
\* "Bearer <token>", or a bearer token that jwt.verify refuses for its
\* signature, refuses as expired, or accepts; role is the role member of
\* the token's payload.
NoHeader == [kind |-> "none", role |-> ""]
NotBearer == [kind |-> "notbearer", role |-> ""]
BadSignature == [kind |-> "invalid", role |-> ""]
Expired(role) == [kind |-> "expired", role |-> role]
Valid(role) == [kind |-> "valid", role |-> role]

\* What a middleware does with a request: hand it to the handler, or answer.
Pass == [pass |-> TRUE, code |-> 0, message |-> ""]
Deny(code, message) == [pass |-> FALSE, code |-> code, message |-> message]

\* The authMiddleware that is kept with the validators: as driverMiddleware
\* below, and the role of the payload must be driver or admin.  No route
\* of the coordinate router names it.
authMiddleware(token) ==
    CASE token.kind \in {"none", "notbearer"}
           -> Deny(401, "No token, authorization denied")
      [] token.kind = "invalid" -> Deny(401, "Invalid Token")
      [] token.kind = "expired" -> Deny(401, "Token expired")
      [] OTHER -> IF token.role \in {"driver", "admin"} THEN Pass
                  ELSE Deny(403, "Access denied: insufficient permissions")

\* middleware/driverMiddleware: the header must start with "bearer " and
\* jwt.verify must accept the token; the payload becomes req.user and its
\* role is not looked at.
driverMiddleware(token) ==
    CASE token.kind \in {"none", "notbearer"}
           -> Deny(401, "No token, authorization denied")
      [] token.kind = "invalid" -> Deny(401, "Invalid Token")
      [] token.kind = "expired" -> Deny(401, "Token expired")
      [] OTHER -> Pass

\* Variant: any accepted token passes.
adminMiddleware_AnyRole(token) ==
    CASE token.kind \in {"none", "notbearer"}
           -> Deny(401, "No token, authorization denied")
      [] token.kind = "invalid" -> Deny(401, "Invalid Token")
      [] token.kind = "expired" -> Deny(401, "Token expired")
      [] OTHER -> Pass

\* middleware/adminMiddleware: as above, and the role of the payload must
\* be admin.
adminMiddleware(token) ==
    CASE token.kind \in {"none", "notbearer"}
           -> Deny(401, "No token, authorization denied")
      [] token.kind = "invalid" -> Deny(401, "Invalid Token")
      [] token.kind = "expired" -> Deny(401, "Token expired")
      [] OTHER -> IF token.role = "admin" THEN Pass
                  ELSE Deny(403, "Access denied. Admins only.")

\* A route: the middleware's verdict on the token, then the handler's
\* outcome out.  The response also records the token of the request.
Routed(verdict, token, out, js) ==
    IF verdict.pass
    THEN [resp |-> [out.resp EXCEPT !.req = ("token" :> token) @@ @],
          jobs |-> out.jobs]
    ELSE [resp |-> Response(out.resp.op, out.resp.jobId, [token |-> token],
                            verdict.code, verdict.message, "", NoBody),
          jobs |-> js]

----------------------------------------------------------------------------
(* Inputs                                                                  *)

Kathmandu == Loc(Str(<<"2", "7", ".", "7">>), Str(<<"8", "5", ".", "3">>))
Patan == Loc(Str(<<"2", "7", ".", "8">>), Str(<<"8", "5", ".", "4">>))
OnTheRoad ==
    Loc(Str(<<"2", "7", ".", "7", "5">>), Str(<<"8", "5", ".", "3", "5">>))
\* The pair of the test 'should reject job creation with coordinates
\* outside Nepal'.
FarAway ==
    Loc(Str(<<"4", "0", ".", "0">>), Str(<<"1", "0", "0", ".", "0">>))
\* Latitude inside, longitude one thousandth of a degree east of the box,
\* both sent as numbers.
JustEast == Loc(Num(27800), Num(88202))

PickupInputs == {Kathmandu, FarAway, NoLoc}
DropoffInputs == {Patan, JustEast}
CreateCoordsInputs == {NoLoc, OnTheRoad}
UpdateCoordsInputs == {OnTheRoad, FarAway, EmptyLoc, NoLoc}

DriverInfoInputs ==
    {DriverInfo(OidText(DriverKey)), DriverInfo(OidText(AdminKey)),
     DriverInfo(OidText(GhostKey)), DriverInfo(BadIdText),
     DriverInfo(NoId), NoDriverInfo}

CreateStatusInputs == {NoStatus, "delivered", "bogus"}
UpdateStatusInputs == UpdatableStatuses \cup {NoStatus, "bogus"}

\* Bodies of createJob: every driverInfo with every pair of places, and
\* every currentCoords and status with every pickup for the driver of the
\* directory.
CreateJobInputs ==
    [driverInfo : DriverInfoInputs, pickupInfo : PickupInputs,
     dropoffInfo : DropoffInputs, currentCoords : {NoLoc},
     status : {NoStatus}]
    \cup
    [driverInfo : {DriverInfo(OidText(DriverKey))}, pickupInfo : PickupInputs,
     dropoffInfo : {Patan}, currentCoords : CreateCoordsInputs,
     status : CreateStatusInputs]

\* The ids of the documents the collection can hold, a well-formed id that
\* no document has, and text that is not an ObjectId.
JobIdInputs == {OidText(k) : k \in 1..MaxJobs} \cup {OidText(GhostKey), BadIdText}

----------------------------------------------------------------------------
(* Specification                                                           *)

Init ==
    /\ users = (DriverKey :> "driver") @@ (AdminKey :> "admin")
    /\ jobs = << >>
    /\ calls = << >>
    /\ resp = Response("none", NoId, NoReq, 0, "", "", NoBody)

\* POST /job/createJob.  The collection holds at most MaxJobs documents.
CreateJob(req) ==
    LET out == createJobOutcome(users, jobs, req)
    IN /\ Len(out.jobs) <= MaxJobs
       /\ jobs' = out.jobs
       /\ resp' = out.resp
       /\ UNCHANGED <<users, calls>>

\* GET /job/getJobById/:jobId
GetJobById(jobId) ==
    /\ resp' = getJobByIdResponse(jobs, jobId)
    /\ UNCHANGED <<users, jobs, calls>>

\* PATCH /job/:jobId/status
UpdateStatus(jobId, status) ==
    LET out == updateStatusOutcome(jobs, jobId, status)
    IN /\ jobs' = out.jobs
       /\ resp' = out.resp
       /\ UNCHANGED <<users, calls>>

\* PATCH /coordinate/updateCoord/:jobId
UpdateLiveCoordinate(jobId, currentCoords) ==
    LET out == updateLiveCoordinateOutcome(jobs, jobId, currentCoords)
    IN /\ jobs' = out.jobs
       /\ resp' = out.resp
       /\ UNCHANGED <<users, calls>>

\* GET /coordinate/getLiveCoord/:jobId
GetLiveCoordinate(jobId) ==
    /\ resp' = getLiveCoordinateResponse(jobs, jobId)
    /\ UNCHANGED <<users, jobs, calls>>

Next ==
    \/ \E req \in CreateJobInputs : CreateJob(req)
    \/ \E jobId \in JobIdInputs : GetJobById(jobId)
    \/ \E jobId \in JobIdInputs, status \in UpdateStatusInputs :
          UpdateStatus(jobId, status)
    \/ \E jobId \in JobIdInputs, currentCoords \in UpdateCoordsInputs :
          UpdateLiveCoordinate(jobId, currentCoords)
    \/ \E jobId \in JobIdInputs : GetLiveCoordinate(jobId)

Spec == Init /\ [][Next]_vars

----------------------------------------------------------------------------
(* The routes: each handler behind the middleware of its route            *)

TokenInputs ==
    {NoHeader, NotBearer, BadSignature, Expired("driver"),
     Valid("driver"), Valid("admin"), Valid("customer")}

RouteCreateInputs ==
    {[driverInfo |-> DriverInfo(OidText(DriverKey)), pickupInfo |-> p,
      dropoffInfo |-> Patan, currentCoords |-> NoLoc, status |-> NoStatus] :
        p \in {Kathmandu, FarAway}}

RouteStatusInputs == {"delivered", "bogus"}
RouteCoordsInputs == {OnTheRoad, FarAway}

\* router.post('/createJob', adminMiddleware, jobController.createJob)
PostCreateJob(token, req) ==
    LET out == Routed(adminMiddleware(token), token,
                      createJobOutcome(users, jobs, req), jobs)
    IN /\ Len(out.jobs) <= MaxJobs
       /\ jobs' = out.jobs
       /\ resp' = out.resp
       /\ UNCHANGED <<users, calls>>

\* router.patch('/:jobId/status', adminMiddleware, jobController.updateStatus)
PatchStatus(token, jobId, status) ==
    LET out == Routed(adminMiddleware(token), token,
                      updateStatusOutcome(jobs, jobId, status), jobs)
    IN /\ jobs' = out.jobs
       /\ resp' = out.resp
       /\ UNCHANGED <<users, calls>>

\* router.patch('/updateCoord/:jobId', driverMiddleware, updateLiveCoordinate)
PatchUpdateCoord(token, jobId, currentCoords) ==
    LET out == Routed(driverMiddleware(token), token,
                      updateLiveCoordinateOutcome(jobs, jobId, currentCoords),
                      jobs)
    IN /\ jobs' = out.jobs
       /\ resp' = out.resp
       /\ UNCHANGED <<users, calls>>

\* router.get('/getLiveCoord/:jobId', driverMiddleware, getLiveCoordinate)
GetLiveCoord(token, jobId) ==
    LET out == Routed(driverMiddleware(token), token,
                      [resp |-> getLiveCoordinateResponse(jobs, jobId),
                       jobs |-> jobs], jobs)
    IN /\ resp' = out.resp
       /\ UNCHANGED <<users, jobs, calls>>

\* router.get('/getCoord/:jobId', driverMiddleware, getCoordinates)
GetCoord(token, jobId) ==
    LET out == Routed(driverMiddleware(token), token,
                      [resp |-> getCoordinatesResponse(jobs, jobId),
                       jobs |-> jobs], jobs)
    IN /\ resp' = out.resp
       /\ UNCHANGED <<users, jobs, calls>>

\* router.get('/getAllCoord/:jobId', getAllCoordinates): no middleware.
GetAllCoord(token, jobId) ==
    LET out == Routed(Pass, token,
                      [resp |-> getAllCoordinatesResponse(jobs, jobId),
                       jobs |-> jobs], jobs)
    IN /\ resp' = out.resp
       /\ UNCHANGED <<users, jobs, calls>>

RouteNext ==
    \/ \E token \in TokenInputs, req \in RouteCreateInputs :
          PostCreateJob(token, req)
    \/ \E token \in TokenInputs, jobId \in JobIdInputs,
          status \in RouteStatusInputs : PatchStatus(token, jobId, status)
    \/ \E token \in TokenInputs, jobId \in JobIdInputs,
          currentCoords \in RouteCoordsInputs :
          PatchUpdateCoord(token, jobId, currentCoords)
    \/ \E token \in TokenInputs, jobId \in JobIdInputs :
          GetLiveCoord(token, jobId)
    \/ \E token \in TokenInputs, jobId \in JobIdInputs :
          GetCoord(token, jobId)
    \/ \E token \in TokenInputs, jobId \in JobIdInputs :
          GetAllCoord(token, jobId)

RouteSpec == Init /\ [][RouteNext]_vars

----------------------------------------------------------------------------
(* Listing: createJob, updateStatus and the reads on a larger collection  *)

MaxListJobs == 3

Ram == <<"R", "a", "m">>
Maya == <<"M", "a", "y", "a">>

\* A second driver of the directory ('Driver 2' of the job tests).
SecondDriverKey == 3

ListInit ==
    /\ users = (DriverKey :> "driver") @@ (AdminKey :> "admin")
                   @@ (SecondDriverKey :> "driver")
    /\ jobs = << >>
    /\ calls = << >>
    /\ resp = Response("none", NoId, NoReq, 0, "", "", NoBody)

\* Bodies a createJob accepts: one of two drivers, both places inside the
\* region, no status.
ListCreateInputs ==
    {[driverInfo |-> ("name" :> d[1]) @@ DriverInfo(OidText(d[2])),
      pickupInfo |-> Kathmandu, dropoffInfo |-> Patan,
      currentCoords |-> NoLoc, status |-> NoStatus] :
        d \in {<<Ram, DriverKey>>, <<Maya, SecondDriverKey>>}}

ListStatusInputs == {"pending", "in-transit"}
StatusFilterInputs == {NoStatus, "pending", "in-transit", "bogus"}
SearchInputs ==
    {NoText, <<"r", "A">>, <<"a", ".", "a">>, <<"(">>, <<"[", "a">>}

\* Job ids and driver ids of the read requests.
ListJobIdInputs == {OidText(1), OidText(MaxListJobs), BadIdText}
DriverIdInputs ==
    {OidText(DriverKey), OidText(SecondDriverKey), OidText(GhostKey),
     BadIdText, NoId}

ListCreateJob(req) ==
    LET out == createJobOutcome(users, jobs, req)
    IN /\ Len(out.jobs) <= MaxListJobs
       /\ jobs' = out.jobs
       /\ resp' = out.resp
       /\ UNCHANGED <<users, calls>>

ListUpdateStatus(jobId, status) ==
    LET out == updateStatusOutcome(jobs, jobId, status)
    IN /\ jobs' = out.jobs
       /\ resp' = out.resp
       /\ UNCHANGED <<users, calls>>

\* GET /job
GetJobs(status, search) ==
    /\ resp' = getJobsResponse(jobs, status, search)
    /\ UNCHANGED <<users, jobs, calls>>

\* Variant: the handler removes what it has returned.
GetJobsForDriver_Consuming(driverId) ==
    /\ resp' \in getJobsForDriverResponses(jobs, driverId)
    /\ jobs' = IF resp'.code = 200 /\ Len(resp'.body.list) = Len(jobs)
               THEN << >> ELSE jobs
    /\ UNCHANGED <<users, calls>>

\* GET /job/getJobForDriver/:driverId
GetJobsForDriver(driverId) ==
    /\ resp' \in getJobsForDriverResponses(jobs, driverId)
    /\ UNCHANGED <<users, jobs, calls>>

\* GET /coordinate/getCoord/:jobId
GetCoordinates(jobId) ==
    /\ resp' = getCoordinatesResponse(jobs, jobId)
    /\ UNCHANGED <<users, jobs, calls>>

\* GET /coordinate/getAllCoord/:jobId
GetAllCoordinates(jobId) ==
    /\ resp' = getAllCoordinatesResponse(jobs, jobId)
    /\ UNCHANGED <<users, jobs, calls>>

\* GET /jobs/summary
GetSummary ==
    /\ resp' = getSummaryResponse(jobs)
    /\ UNCHANGED <<users, jobs, calls>>

ListNext ==
    \/ \E req \in ListCreateInputs : ListCreateJob(req)
    \/ \E k \in 1..MaxListJobs, status \in ListStatusInputs :
          ListUpdateStatus(OidText(k), status)
    \/ \E status \in StatusFilterInputs, search \in SearchInputs :
          GetJobs(status, search)
    \/ \E jobId \in ListJobIdInputs : GetJobById(jobId)
    \/ \E driverId \in DriverIdInputs : GetJobsForDriver(driverId)
    \/ \E jobId \in ListJobIdInputs : GetLiveCoordinate(jobId)
    \/ \E jobId \in ListJobIdInputs : GetCoordinates(jobId)
    \/ \E jobId \in ListJobIdInputs : GetAllCoordinates(jobId)
    \/ GetSummary

ListSpec == ListInit /\ [][ListNext]_vars

----------------------------------------------------------------------------
(* isWithinNepal on its own                                                *)

LatitudeInputs ==
    {Num(26346), Num(26347), Num(27700), Num(30447), Num(30448),
     Num(0 - 27700),
     Str(<<"2", "6", ".", "3", "4", "7">>), Str(<<"2", "7", ".", "7">>),
     Undef, Str(<< >>), Str(<<"a", "b", "c">>),
     Str(<<"2", "7", ".", "7", "a", "b", "c">>)}

LongitudeInputs ==
    {Num(80057), Num(80058), Num(85300), Num(88201), Num(88202),
     Str(<<"8", "5", ".", "3">>),
     Undef, Str(<<"a", "b", "c">>),
     Str(<<"8", "5", ".", "3", "a", "b", "c">>)}

\* A call isWithinNepal(lat, lon) that has not returned yet.
RegionInit ==
    /\ users = (DriverKey :> "driver") @@ (AdminKey :> "admin")
    /\ jobs = << >>
    /\ calls = << >>
    /\ \E lat \in LatitudeInputs, lon \in LongitudeInputs :
          resp = Response("isWithinNepal", NoId, [lat |-> lat, lon |-> lon],
                          0, "", "", NoBody)

\* The call returns.
ReturnIsWithinNepal ==
    /\ resp.op = "isWithinNepal" /\ resp.body = NoBody
    /\ resp' = [resp EXCEPT
                  !.body = [returns |-> isWithinNepal(resp.req.lat,
                                                      resp.req.lon)]]
    /\ UNCHANGED <<users, jobs, calls>>

RegionNext == ReturnIsWithinNepal

RegionSpec == RegionInit /\ [][RegionNext]_vars

----------------------------------------------------------------------------
(* createJob between its awaits, with the user directory changing           *)

\* Requests taken in by the specification below.
MaxCreateCalls == 2

\* Bodies of createJob: the driver of the directory, an id of nobody or text
\* that is no id, with the pickup inside the region or outside it.
StepCreateInputs ==
    [driverInfo : {DriverInfo(OidText(DriverKey)),
                   DriverInfo(OidText(GhostKey)), DriverInfo(BadIdText)},
     pickupInfo : {Kathmandu, FarAway}, dropoffInfo : {Patan},
     currentCoords : {NoLoc}, status : {NoStatus}]

\* Roles a profile update sets.
RoleInputs == {"driver", "admin"}

\* A createJob taken in.  pc is where its handler stands: "findById" and
\* "save" are the two awaits, "resumed" is the lookup returned and the
\* handler not yet run on, "done" is answered.  driver is what the lookup
\* returned; trace lists what the handler has done so far: "format" the
\* ObjectId.isValid test, "lookup" the User.findById, "geofence" the
\* validateNepalCoordinates call, "save" the newJob.save().
CreateCall(req, pc, driver, trace, code, message, error) ==
    [op |-> "createJob", req |-> req, pc |-> pc, driver |-> driver,
     trace |-> trace, code |-> code, message |-> message, error |-> error]

\* The answer of a finished call, as a response.
AnswerOf(call, body) ==
    Response(call.op, NoId, call.req, call.code, call.message, call.error,
             body)

\* Variant: the places are validated ahead of the driver id.
CreateJobStart_GeofenceFirst(req) ==
    LET geo == validateNepalCoordinates(req.pickupInfo, req.dropoffInfo)
        call ==
          IF geo # "ok"
            THEN CreateCall(req, "done", "null", <<"geofence">>, 500,
                            "Failed to create job", geo)
          ELSE IF ~ObjectIdIsValid(req.driverInfo.id)
            THEN CreateCall(req, "done", "null", <<"geofence", "format">>,
                            400, "Invalid driver ID", "")
          ELSE CreateCall(req, "findById", "null", <<"geofence", "format">>,
                          0, "", "")
    IN /\ Len(calls) < MaxCreateCalls
       /\ calls' = Append(calls, call)
       /\ resp' = IF call.pc = "done" THEN AnswerOf(call, NoBody) ELSE resp
       /\ UNCHANGED <<users, jobs>>

\* The handler up to its first await: the body is destructured, the driver
\* id is tested, and User.findById is issued.
CreateJobStart(req) ==
    LET call ==
          IF ~req.driverInfo.def
            THEN CreateCall(req, "done", "null", <<"format">>, 500,
                            "Failed to create job", TypeErrorMessage)
          ELSE IF ~ObjectIdIsValid(req.driverInfo.id)
            THEN CreateCall(req, "done", "null", <<"format">>, 400,
                            "Invalid driver ID", "")
          ELSE CreateCall(req, "findById", "null", <<"format">>, 0, "", "")
    IN /\ Len(calls) < MaxCreateCalls
       /\ calls' = Append(calls, call)
       /\ resp' = IF call.pc = "done" THEN AnswerOf(call, NoBody) ELSE resp
       /\ UNCHANGED <<users, jobs>>

\* The directory answers User.findById(driverInfo.id) of call c.
CreateJobFindById(c) ==
    /\ calls[c].pc = "findById"
    /\ calls' = [calls EXCEPT
                   ![c].pc = "resumed",
                   ![c].driver = UserFindById(users, calls[c].req.driverInfo.id),
                   ![c].trace = Append(@, "lookup")]
    /\ UNCHANGED <<users, jobs, resp>>

\* The handler of call c runs on from the lookup to its second await: the
\* role test, the geofence, new Job, and newJob.save() is issued.
CreateJobResume(c) ==
    LET call == calls[c]
        geo == validateNepalCoordinates(call.req.pickupInfo,
                                        call.req.dropoffInfo)
        after ==
          IF ~isDriverUser(call.driver)
            THEN [call EXCEPT !.pc = "done", !.code = 400,
                              !.message = "Invalid or Non-driver User"]
          ELSE IF geo # "ok"
            THEN [call EXCEPT !.pc = "done", !.code = 500,
                              !.message = "Failed to create job",
                              !.error = geo,
                              !.trace = Append(@, "geofence")]
          ELSE [call EXCEPT !.pc = "save", !.trace = Append(@, "geofence")]
    IN /\ call.pc = "resumed"
       /\ calls' = [calls EXCEPT ![c] = after]
       /\ resp' = IF after.pc = "done" THEN AnswerOf(after, NoBody) ELSE resp
       /\ UNCHANGED <<users, jobs>>

\* The store runs the save of call c and the handler answers 201 with the
\* saved document (or 500 when the schema refuses it); nothing else is read
\* or written between the save and the answer.
CreateJobSave(c) ==
    LET call == calls[c]
        newJob == createJobDocument(call.req, Len(jobs) + 1)
        after ==
          IF ~JobSchemaAccepts(newJob)
            THEN [call EXCEPT !.pc = "done", !.code = 500,
                              !.message = "Failed to create job",
                              !.error = ValidationMessage,
                              !.trace = Append(@, "save")]
          ELSE [call EXCEPT !.pc = "done", !.code = 201,
                            !.trace = Append(@, "save")]
    IN /\ call.pc = "save"
       /\ calls' = [calls EXCEPT ![c] = after]
       /\ jobs' = IF after.code = 201 THEN Append(jobs, newJob) ELSE jobs
       /\ resp' = AnswerOf(after, IF after.code = 201 THEN newJob ELSE NoBody)
       /\ UNCHANGED users

\* PATCH /updateUserProfile/:id with a role in the body:
\* User.findByIdAndUpdate(userId, {$set: req.body}, {new: true}), one
\* update of the user document, no test of the fields sent.
UpdateUserProfile(userKey, role) ==
    /\ users' = IF userKey \in DOMAIN users
                THEN [users EXCEPT ![userKey] = role] ELSE users
    /\ resp' = Response("updateUserProfile", NoId,
                        [id |-> OidText(userKey), role |-> role],
                        IF userKey \in DOMAIN users THEN 200 ELSE 404,
                        IF userKey \in DOMAIN users THEN ""
                        ELSE "User not found", "", NoBody)
    /\ UNCHANGED <<jobs, calls>>

CreateStepNext ==
    \/ \E req \in StepCreateInputs : CreateJobStart(req)
    \/ \E c \in 1..Len(calls) : CreateJobFindById(c)
    \/ \E c \in 1..Len(calls) : CreateJobResume(c)
    \/ \E c \in 1..Len(calls) : CreateJobSave(c)
    \/ \E userKey \in {DriverKey, GhostKey}, role \in RoleInputs :
          UpdateUserProfile(userKey, role)

CreateStepSpec == Init /\ [][CreateStepNext]_vars

----------------------------------------------------------------------------
(* updateStatus, updateLiveCoordinate and getLiveCoordinate interleaved    *)

\* Requests taken in by the specification below.
MaxCoordCalls == 3

\* Two jobs are stored, created from the body of the tests.
CoordInit ==
    /\ users = (DriverKey :> "driver") @@ (AdminKey :> "admin")
    /\ jobs = <<createJobDocument(CHOOSE req \in ListCreateInputs : TRUE, 1),
                createJobDocument(CHOOSE req \in ListCreateInputs : TRUE, 2)>>
    /\ resp = Response("none", NoId, NoReq, 0, "", "", NoBody)
    /\ calls = << >>

CoordJobIdInputs == {OidText(1), OidText(2)}
CoordPositionInputs == {OnTheRoad, FarAway}
CoordStatusInputs == {"delivered", "bogus"}

\* A request of the three handlers taken in: pc is "await" while its store
\* operation is issued and has not run, "done" when it is answered; code
\* and body are the answer.
StoreCall(op, jobId, req) ==
    [op |-> op, jobId |-> jobId, req |-> req, pc |-> "await", code |-> 0,
     body |-> NoBody]

\* updateStatus up to its await: the status is tested, and a status that is
\* refused is answered at once.
StartUpdateStatus(jobId, status) ==
    LET call == StoreCall("updateStatus", jobId, [status |-> status])
        out == updateStatusOutcome(jobs, jobId, status)
    IN /\ Len(calls) < MaxCoordCalls
       /\ IF isValidStatus(status)
          THEN calls' = Append(calls, call) /\ resp' = resp
          ELSE /\ calls' = Append(calls, [call EXCEPT !.pc = "done",
                                                      !.code = out.resp.code])
               /\ resp' = out.resp
       /\ UNCHANGED <<users, jobs>>

\* updateLiveCoordinate up to its await.
StartUpdateLiveCoordinate(jobId, currentCoords) ==
    /\ Len(calls) < MaxCoordCalls
    /\ calls' = Append(calls, StoreCall("updateLiveCoordinate", jobId,
                                        [currentCoords |-> currentCoords]))
    /\ UNCHANGED <<users, jobs, resp>>

\* getLiveCoordinate up to its await.
StartGetLiveCoordinate(jobId) ==
    /\ Len(calls) < MaxCoordCalls
    /\ calls' = Append(calls, StoreCall("getLiveCoordinate", jobId, NoReq))
    /\ UNCHANGED <<users, jobs, resp>>

\* The store runs the operation of call c, one findByIdAndUpdate or one
\* findById, as a single step on the document, and the handler answers with
\* what the store returned; nothing else is read or written between the
\* two.
StoreStep(c) ==
    LET call == calls[c]
        out ==
          IF call.op = "updateStatus"
            THEN updateStatusOutcome(jobs, call.jobId, call.req.status)
          ELSE IF call.op = "updateLiveCoordinate"
            THEN updateLiveCoordinateOutcome(jobs, call.jobId,
                                             call.req.currentCoords)
          ELSE [resp |-> getLiveCoordinateResponse(jobs, call.jobId),
                jobs |-> jobs]
    IN /\ call.pc = "await"
       /\ jobs' = out.jobs
       /\ resp' = out.resp
       /\ calls' = [calls EXCEPT ![c].pc = "done",
                                 ![c].code = out.resp.code,
                                 ![c].body = out.resp.body]
       /\ UNCHANGED users

CoordStepNext ==
    \/ \E jobId \in CoordJobIdInputs, status \in CoordStatusInputs :
          StartUpdateStatus(jobId, status)
    \/ \E jobId \in CoordJobIdInputs, currentCoords \in CoordPositionInputs :
          StartUpdateLiveCoordinate(jobId, currentCoords)
    \/ \E jobId \in CoordJobIdInputs : StartGetLiveCoordinate(jobId)
    \/ \E c \in 1..Len(calls) : StoreStep(c)

CoordStepSpec == CoordInit /\ [][CoordStepNext]_vars

TypeOK ==
    /\ Len(jobs) <= MaxJobs
    /\ \A k \in 1..Len(jobs) : jobs[k]._id = k

----------------------------------------------------------------------------
(* Properties                                                              *)

\* The place has numeric coordinates inside / outside the region
\* latitude 26.347..30.447, longitude 80.058..88.201.
InBox(loc) ==
    LET la == parseFloat(loc.latitude)
        lo == parseFloat(loc.longitude)
    IN /\ loc.def /\ ~la.nan /\ ~lo.nan
       /\ 26347 * la.den <= la.num * 1000 /\ la.num * 1000 <= 30447 * la.den
       /\ 80058 * lo.den <= lo.num * 1000 /\ lo.num * 1000 <= 88201 * lo.den

OutOfBox(loc) ==
    LET la == parseFloat(loc.latitude)
        lo == parseFloat(loc.longitude)
    IN /\ loc.def /\ ~la.nan /\ ~lo.nan
       /\ \/ la.num * 1000 < 26347 * la.den \/ la.num * 1000 > 30447 * la.den
          \/ lo.num * 1000 < 80058 * lo.den \/ lo.num * 1000 > 88201 * lo.den

FiveStatuses == {"pending", "in-transit", "delayed", "delivered", "cancelled"}

\* The body names, by a well-formed id, a user of the directory whose role
\* is driver.
NamesDriver(req) ==
    /\ req.driverInfo.def /\ req.driverInfo.id.def /\ req.driverInfo.id.wf
    /\ req.driverInfo.id.key \in DOMAIN users
    /\ users[req.driverInfo.id.key] = "driver"

\* The body carries both places as coordinate pairs and one of them lies
\* outside the region.
PlaceOutOfRegion(req) ==
    /\ req.pickupInfo.def /\ req.dropoffInfo.def
    /\ OutOfBox(req.pickupInfo) \/ OutOfBox(req.dropoffInfo)

\* C1: a createJob whose body names a driver and has a pickup or dropoff
\* pair outside the region is answered with the geofence error, and the Job
\* collection after the call is the collection before it.
C1_GeofenceRejects ==
    [][(resp'.op = "createJob" /\ NamesDriver(resp'.req)
          /\ PlaceOutOfRegion(resp'.req))
       => (/\ resp'.code >= 400
           /\ resp'.error = GeofenceMessage
           /\ jobs' = jobs)]_vars

\* Witness of C1: a stored job exists and a createJob with the pickup of the
\* test (40.0, 100.0) has just been refused with the geofence error.
C1_Witness ==
    /\ resp.op = "createJob" /\ NamesDriver(resp.req)
    /\ resp.req.pickupInfo = FarAway /\ resp.req.dropoffInfo = Patan
    /\ resp.error = GeofenceMessage
    /\ Len(jobs) = 1

BadOrMissingDriverId(req) ==
    \/ ~req.driverInfo.def
    \/ ~req.driverInfo.id.def
    \/ ~req.driverInfo.id.wf

\* C4: a createJob with a bad or missing driver id (driverInfo.id not a
\* well-formed identifier, or driverInfo absent) is answered 400 "Invalid
\* driver ID" and leaves the Job collection as it was.
C4_BadDriverIdIs400 ==
    [][(resp'.op = "createJob" /\ BadOrMissingDriverId(resp'.req))
       => (/\ resp'.code = 400
           /\ resp'.message = "Invalid driver ID"
           /\ jobs' = jobs)]_vars

\* C5: an updateStatus whose status is missing or is not one of the five
\* statuses is answered 400 "Invalid or missing status", whatever the job
\* id and the job's status, and leaves every stored job as it was.
C5_InvalidStatusRejected ==
    [][(resp'.op = "updateStatus" /\ resp'.req.status \notin FiveStatuses)
       => (/\ resp'.code = 400
           /\ resp'.message = "Invalid or missing status"
           /\ jobs' = jobs)]_vars

\* Witness of C5: status "bogus" has just been refused for a stored job
\* that is delivered, and the job still is.
C5_Witness ==
    /\ resp.op = "updateStatus" /\ resp.req.status = "bogus"
    /\ resp.jobId = OidText(1)
    /\ resp.code = 400
    /\ Len(jobs) >= 1 /\ jobs[1].status = "delivered"

\* The job id of the request resolves to no stored job.
ResolvesToNoJob(jobId) == ~(jobId.def /\ jobId.wf /\ jobId.key \in 1..Len(jobs))

\* C6 as stated: an updateStatus with a valid status on a job id that
\* resolves to no job is answered 404 "Job Not Found" and the Job
\* collection is unchanged.
C6_AlwaysJobNotFound ==
    [][(/\ resp'.op = "updateStatus"
        /\ resp'.req.status \in FiveStatuses
        /\ ResolvesToNoJob(resp'.jobId))
       => (/\ resp'.code = 404
           /\ resp'.message = "Job Not Found"
           /\ jobs' = jobs)]_vars

\* C6 as amended: an updateStatus with a valid status on a job id that
\* resolves to no job never inserts or changes a document; it is answered
\* 404 "Job Not Found" when the id is a well-formed identifier and 500
\* "Internal Server error" when it is not.
C6_MissingJobNoUpsert ==
    [][(/\ resp'.op = "updateStatus"
        /\ resp'.req.status \in FiveStatuses
        /\ ResolvesToNoJob(resp'.jobId))
       => (/\ jobs' = jobs
           /\ resp'.jobId.wf
                => resp'.code = 404 /\ resp'.message = "Job Not Found"
           /\ ~resp'.jobId.wf
                => resp'.code = 500
                   /\ resp'.message = "Internal Server error")]_vars

\* Witness of C6: with one job stored, status "delivered" has just been
\* sent for a well-formed id that no job has, and answered 404.
C6_Witness ==
    /\ resp.op = "updateStatus" /\ resp.req.status = "delivered"
    /\ resp.jobId = OidText(GhostKey)
    /\ resp.code = 404 /\ resp.message = "Job Not Found"
    /\ Len(jobs) = 1 /\ jobs[1].status # "delivered"

\* C7: status transitions are fully permissive.  For every stored job and
\* every one of the five statuses t, updateStatus to t succeeds and leaves
\* the job in status t, whatever status the job has; and whenever an
\* updateStatus with one of the five statuses has been handled for a stored
\* job, it succeeded and the job has that status.
C7_AnyTransitionAllowed ==
    /\ \A k \in 1..Len(jobs), t \in FiveStatuses :
          LET out == updateStatusOutcome(jobs, OidText(k), t)
          IN out.resp.code = 200 /\ out.jobs[k].status = t
    /\ (/\ resp.op = "updateStatus"
        /\ resp.before # NoBody
        /\ resp.req.status \in FiveStatuses)
       => (/\ resp.code = 200
           /\ resp.body.status = resp.req.status
           /\ jobs[resp.jobId.key].status = resp.req.status)

\* Witness of C7: a delivered job has just been set back to pending.
C7_Witness ==
    /\ resp.op = "updateStatus" /\ resp.code = 200
    /\ resp.before # NoBody /\ resp.before.status = "delivered"
    /\ resp.req.status = "pending"
    /\ jobs[resp.jobId.key].status = "pending"

\* C8: in every reachable state the status of every stored job is one of
\* the five statuses, and a createJob whose body carries a status outside
\* them is refused and leaves the Job collection as it was.
C8_StatusEnumerated ==
    /\ [](\A k \in 1..Len(jobs) : jobs[k].status \in FiveStatuses)
    /\ [][(/\ resp'.op = "createJob"
           /\ resp'.req.status # NoStatus
           /\ resp'.req.status \notin FiveStatuses)
          => (resp'.code >= 400 /\ jobs' = jobs)]_vars

\* Witness of C8: a createJob that is in order but for its status "bogus"
\* has just been refused, and the stored job is cancelled.
C8_Witness ==
    /\ resp.op = "createJob" /\ resp.req.status = "bogus"
    /\ NamesDriver(resp.req)
    /\ InBox(resp.req.pickupInfo) /\ InBox(resp.req.dropoffInfo)
    /\ resp.code = 500 /\ resp.error = ValidationMessage
    /\ Len(jobs) = 1 /\ jobs[1].status = "cancelled"

\* What was submitted is what the response r of getJobById carries.
RoundTrip(req, r) ==
    /\ r.code = 200
    /\ r.body.pickupInfo = req.pickupInfo
    /\ r.body.dropoffInfo = req.dropoffInfo
    /\ r.body.driverInfo.id = req.driverInfo.id
    /\ r.body.status = IF req.status = NoStatus THEN "pending" ELSE req.status

ReadsBack(c, r) == r.code = 200 /\ r.body.coordinate = c

\* C10: last writer wins.  After any sequence of calls whose last one is a
\* successful updateLiveCoordinate writing a position, getLiveCoordinate on
\* that job returns exactly that position: this is what it would answer in
\* that state, and what it does answer when it is the next request.
C10_LastWriterWins ==
    /\ []((/\ resp.op = "updateLiveCoordinate" /\ resp.code = 200
           /\ resp.req.currentCoords.def)
          => ReadsBack(resp.req.currentCoords,
                       getLiveCoordinateResponse(jobs, resp.jobId)))
    /\ [][(/\ resp.op = "updateLiveCoordinate" /\ resp.code = 200
           /\ resp.req.currentCoords.def
           /\ resp'.op = "getLiveCoordinate"
           /\ resp'.jobId = resp.jobId)
          => ReadsBack(resp.req.currentCoords, resp')]_vars

\* Witness of C10: a position has just been written over a different one
\* written before, and getLiveCoordinate answers the new one.
C10_Witness ==
    /\ resp.op = "updateLiveCoordinate" /\ resp.code = 200
    /\ resp.req.currentCoords = OnTheRoad
    /\ resp.before # NoBody /\ resp.before.currentCoords = FarAway
    /\ ReadsBack(OnTheRoad, getLiveCoordinateResponse(jobs, resp.jobId))

\* C11: updateLiveCoordinate replaces currentCoords as a whole.  After a
\* successful call that carries a currentCoords object, the stored member
\* and the one in the answered document equal the submitted object exactly:
\* a field the stored member had and the payload lacks is gone, also when
\* the payload is the empty object.
C11_WholesaleOverwrite ==
    (/\ resp.op = "updateLiveCoordinate" /\ resp.code = 200
     /\ resp.req.currentCoords.def)
    => (/\ jobs[resp.jobId.key].currentCoords = resp.req.currentCoords
        /\ resp.body.currentCoords = resp.req.currentCoords)

\* Witness of C11: the empty object has just been written over a member
\* that had a latitude and a longitude, and the stored member has neither.
C11_Witness ==
    /\ resp.op = "updateLiveCoordinate" /\ resp.code = 200
    /\ resp.req.currentCoords = EmptyLoc
    /\ resp.before # NoBody /\ resp.before.currentCoords = OnTheRoad
    /\ jobs[resp.jobId.key].currentCoords.latitude = Undef
    /\ jobs[resp.jobId.key].currentCoords.longitude = Undef

\* C12 as stated: an updateLiveCoordinate on a job id that resolves to no
\* job is answered 404 "Job not found" and the Job collection is unchanged.
C12_AlwaysJobNotFound ==
    [][(resp'.op = "updateLiveCoordinate" /\ ResolvesToNoJob(resp'.jobId))
       => (/\ resp'.code = 404
           /\ resp'.message = "Job not found"
           /\ jobs' = jobs)]_vars

\* C12 as amended: an updateLiveCoordinate on a job id that resolves to no
\* job never inserts or changes a document; it is answered 404 "Job not
\* found" when the id is a well-formed identifier and 500 "Internal Server
\* Error" when it is not.
C12_MissingJobNoUpsert ==
    [][(resp'.op = "updateLiveCoordinate" /\ ResolvesToNoJob(resp'.jobId))
       => (/\ jobs' = jobs
           /\ resp'.jobId.wf
                => resp'.code = 404 /\ resp'.message = "Job not found"
           /\ ~resp'.jobId.wf
                => resp'.code = 500
                   /\ resp'.message = "Internal Server Error")]_vars

\* Witness of C12: with one job stored, a position has just been sent for a
\* well-formed id that no job has, and answered 404; the stored job does
\* not have that position.
C12_Witness ==
    /\ resp.op = "updateLiveCoordinate"
    /\ resp.req.currentCoords = OnTheRoad
    /\ resp.jobId = OidText(GhostKey)
    /\ resp.code = 404 /\ resp.message = "Job not found"
    /\ Len(jobs) = 1 /\ jobs[1].currentCoords # OnTheRoad

\* C13: updateLiveCoordinate does no geofence validation.  Whenever a
\* position outside the region has been sent for a stored job, the call
\* succeeded and the position is the job's currentCoords.
C13_NoGeofenceOnUpdate ==
    (/\ resp.op = "updateLiveCoordinate"
     /\ resp.before # NoBody
     /\ resp.req.currentCoords.def
     /\ OutOfBox(resp.req.currentCoords))
    => (/\ resp.code = 200
        /\ jobs[resp.jobId.key].currentCoords = resp.req.currentCoords
        /\ resp.body.currentCoords = resp.req.currentCoords)

\* Witness of C13: a stored job whose pickup and dropoff are inside the
\* region has just been given a position outside it.
C13_Witness ==
    /\ resp.op = "updateLiveCoordinate" /\ resp.code = 200
    /\ Len(jobs) = 1
    /\ InBox(jobs[1].pickupInfo) /\ InBox(jobs[1].dropoffInfo)
    /\ jobs[1].currentCoords = FarAway /\ OutOfBox(jobs[1].currentCoords)

\* C14 as stated: getLiveCoordinate is answered 404 "Job Not found" exactly
\* when the job id resolves to no job, and for a stored job without a
\* position it is answered 200 with an unset coordinate.
C14_NotFoundIffAbsent ==
    resp.op = "getLiveCoordinate"
    => (/\ (resp.code = 404 /\ resp.message = "Job Not found")
              <=> ResolvesToNoJob(resp.jobId)
        /\ (~ResolvesToNoJob(resp.jobId)
            /\ ~jobs[resp.jobId.key].currentCoords.def)
              => (resp.code = 200 /\ resp.body.coordinate = NoLoc))

\* C14 as amended: getLiveCoordinate is answered 404 "Job Not found"
\* exactly when the job id is a well-formed identifier that no job has, and
\* 500 "internal server error" exactly when the id is not well formed; for
\* a stored job it is answered 200 with the stored currentCoords, unset when
\* the job has none.
C14_NotFoundIffWellFormedAbsent ==
    resp.op = "getLiveCoordinate"
    => (/\ (resp.code = 404 /\ resp.message = "Job Not found")
              <=> (resp.jobId.wf /\ ResolvesToNoJob(resp.jobId))
        /\ (resp.code = 500 /\ resp.message = "internal server error")
              <=> ~resp.jobId.wf
        /\ ~ResolvesToNoJob(resp.jobId)
              => (/\ resp.code = 200
                  /\ resp.body.coordinate = jobs[resp.jobId.key].currentCoords
                  /\ ~jobs[resp.jobId.key].currentCoords.def
                        => resp.body.coordinate = NoLoc))

\* Witness of C14: the position of a stored job that has none has just
\* been read, and answered 200 with an unset coordinate.
C14_Witness ==
    /\ resp.op = "getLiveCoordinate" /\ resp.code = 200
    /\ resp.jobId = OidText(1) /\ Len(jobs) = 1
    /\ ~jobs[1].currentCoords.def
    /\ resp.body.coordinate = NoLoc

\* The three coordinate operations that sit behind driverMiddleware.
GuardedCoordinateOps ==
    {"updateLiveCoordinate", "getLiveCoordinate", "getCoordinates"}

\* The request was answered by the middleware with the given code: no
\* document is in the response and the Job collection is as it was.
StoppedWith(code) == resp'.code = code /\ resp'.body = NoBody /\ jobs' = jobs

\* C15: getAllCoordinates on a stored job succeeds without any credential,
\* while updateLiveCoordinate, getLiveCoordinate and getCoordinates are
\* stopped before the handler with 401 when the token is missing, invalid
\* or expired, and with 403 when the token is valid but its role is neither
\* driver nor admin.
C15_CoordinateAuth ==
    [][/\ (/\ resp'.op = "getAllCoordinates"
           /\ resp'.req.token = NoHeader
           /\ ~ResolvesToNoJob(resp'.jobId))
          => resp'.code = 200
       /\ resp'.op \in GuardedCoordinateOps
          => (/\ resp'.req.token.kind # "valid" => StoppedWith(401)
              /\ (/\ resp'.req.token.kind = "valid"
                  /\ resp'.req.token.role \notin {"driver", "admin"})
                 => StoppedWith(403))]_vars

\* C16: createJob and updateStatus are admin only.  A request with a valid
\* token whose role is driver is stopped with 403, one whose token is
\* missing, malformed, invalid or expired with 401, and in both cases the
\* Job collection is unchanged; a refusal by the middleware answers with
\* no document.
C16_AdminOnly ==
    [][resp'.op \in {"createJob", "updateStatus"}
       => (/\ resp'.req.token.kind # "valid" => StoppedWith(401)
           /\ (/\ resp'.req.token.kind = "valid"
               /\ resp'.req.token.role = "driver")
              => StoppedWith(403))]_vars

\* Witness of C16: with one job stored, a createJob that an admin could
\* make has just been sent with a driver's valid token and stopped with
\* 403; the collection still holds the one job.
C16_Witness ==
    /\ resp.op = "createJob"
    /\ resp.req.token = Valid("driver")
    /\ resp.code = 403 /\ resp.message = "Access denied. Admins only."
    /\ Len(jobs) = 1

\* isWithinNepal has returned for the call in resp.
Returned == resp.op = "isWithinNepal" /\ resp.body # NoBody

\* C17: for a pair of numbers, isWithinNepal returns true exactly when
\* 26.347 <= lat <= 30.447 and 80.058 <= lon <= 88.201, the four bounds
\* included.
C17_InclusiveBox ==
    (Returned /\ resp.req.lat.t = "num" /\ resp.req.lon.t = "num")
    => (resp.body.returns
          <=> (/\ 26347 <= resp.req.lat.n /\ resp.req.lat.n <= 30447
               /\ 80058 <= resp.req.lon.n /\ resp.req.lon.n <= 88201))

\* Witness of C17: the call with latitude 26.347 and longitude 88.201, both
\* on the edge of the region, has returned true.
C17_Witness ==
    /\ Returned
    /\ resp.req.lat = Num(26347) /\ resp.req.lon = Num(88201)
    /\ resp.body.returns = TRUE

\* The text is a decimal numeral from its first character to its last: an
\* optional sign, digits, and an optional point followed by digits.
IsDecimalText(s) ==
    LET i1 == IF Len(s) >= 1 /\ s[1] \in {"-", "+"} THEN 2 ELSE 1
        ni == DigitRun(s, i1)
        dot == i1 + ni <= Len(s) /\ s[i1 + ni] = "."
        nf == IF dot THEN DigitRun(s, i1 + ni + 1) ELSE 0
    IN /\ ni + nf >= 1
       /\ i1 + ni + (IF dot THEN 1 + nf ELSE 0) = Len(s) + 1

\* The input is a number or the text of one.
Numeric(v) == v.t = "num" \/ (v.t = "str" /\ IsDecimalText(v.s))

\* C18: isWithinNepal returns false whenever one of its inputs is missing
\* or is not numeric.
C18_NonNumericIsFalse ==
    (Returned /\ (~Numeric(resp.req.lat) \/ ~Numeric(resp.req.lon)))
    => resp.body.returns = FALSE

\* The keys of the stored jobs a status filter selects; no filter selects
\* them all.
SelectedByStatus(status) ==
    {k \in 1..Len(jobs) : status = NoStatus \/ jobs[k].status = status}

\* The list holds exactly the stored jobs with the given keys, each once.
HoldsExactly(list, keys) ==
    /\ Len(list) = Cardinality(keys)
    /\ \A k \in keys : \E i \in 1..Len(list) : list[i] = jobs[k]
    /\ \A i \in 1..Len(list) : list[i]._id \in keys

\* C19: getJobs without a search term answers with exactly the stored jobs
\* whose status equals the status filter, or with all stored jobs when
\* there is no filter, ordered by createdAt, newest first.
C19_FilterAndOrder ==
    (resp.op = "getJobs" /\ resp.req.search = NoText)
    => (/\ resp.code = 200
        /\ HoldsExactly(resp.body.list, SelectedByStatus(resp.req.status))
        /\ \A i \in 1..Len(resp.body.list) :
              resp.req.status # NoStatus
                => resp.body.list[i].status = resp.req.status
        /\ \A i, j \in 1..Len(resp.body.list) :
              i < j => resp.body.list[i].createdAt
                         > resp.body.list[j].createdAt)

\* Witness of C19: of three stored jobs the first and the third are
\* pending and the second is not; the filter pending has just been
\* answered with the third job followed by the first.
C19_Witness ==
    /\ resp.op = "getJobs" /\ resp.code = 200
    /\ resp.req.status = "pending" /\ resp.req.search = NoText
    /\ Len(jobs) = 3
    /\ jobs[1].status = "pending" /\ jobs[2].status = "in-transit"
    /\ jobs[3].status = "pending"
    /\ resp.body.list = <<jobs[3], jobs[1]>>

\* The text contains the term as a literal substring, case ignored.
ContainsLiteral(text, term) ==
    \E i \in 1..(Len(text) - Len(term) + 1) :
        \A j \in 1..Len(term) : Lower(text[i + j - 1]) = Lower(term[j])

\* C20: getJobs with a search term never fails, whatever characters the
\* term has, and answers with exactly the jobs the status filter selects
\* that have the term as a literal substring of a searched text, case
\* ignored.
C20_SearchLiteralNeverFails ==
    (resp.op = "getJobs" /\ resp.req.search # NoText)
    => (/\ resp.code = 200
        /\ HoldsExactly(resp.body.list,
              {k \in SelectedByStatus(resp.req.status) :
                  \E text \in SearchedTexts(jobs[k]) :
                      ContainsLiteral(text, resp.req.search)}))

\* The operations that only read the job collection.
ReadOps ==
    {"getJobs", "getJobById", "getJobsForDriver", "getLiveCoordinate",
     "getCoordinates", "getAllCoordinates"}

\* C21: a step that answers getJobs, getJobById, getJobsForDriver,
\* getLiveCoordinate, getCoordinates or getAllCoordinates, with a success
\* or with an error, leaves the job collection as it was.
C21_ReadsLeaveStore ==
    [][resp'.op \in ReadOps => jobs' = jobs]_vars

\* Witness of C21: with two jobs of one driver stored, getJobsForDriver
\* has just answered with both, and both are still stored.
C21_Witness ==
    /\ resp.op = "getJobsForDriver" /\ resp.code = 200
    /\ Len(jobs) = 2 /\ Len(resp.body.list) = 2

\* C22: no step removes a job.  A job that is stored before a step is
\* stored after it under the same id, and getJobById on the id answers 200
\* with it, whatever its status has become.
C22_JobsAreKept ==
    [][\A k \in 1..Len(jobs) :
          /\ k <= Len(jobs') /\ jobs'[k]._id = jobs[k]._id
          /\ getJobByIdResponse(jobs', OidText(k)).code = 200
          /\ getJobByIdResponse(jobs', OidText(k)).body = jobs'[k]]_vars

\* Witness of C22: getJobById has just answered 200 with a job whose status
\* is cancelled.
C22_Witness ==
    /\ resp.op = "getJobById" /\ resp.code = 200
    /\ resp.body.status = "cancelled"
    /\ Len(jobs) >= 1 /\ jobs[resp.jobId.key].status = "cancelled"

\* C23: a createJob that names a driver and is refused because its pickup
\* or its dropoff is outside the region is answered 400, a code that an
\* unexpected error of the store (500) never has.
C23_GeofenceIs400 ==
    (resp.op = "createJob" /\ NamesDriver(resp.req)
        /\ PlaceOutOfRegion(resp.req))
    => resp.code = 400

\* C30: updateLiveCoordinate does not look at the status.  Whenever a
\* position has been sent for a stored job, whichever of the five statuses
\* the job had, the call succeeded, the position is the job's currentCoords
\* and the status is what it was.
C30_AnyStatusAccepts ==
    (/\ resp.op = "updateLiveCoordinate"
     /\ resp.before # NoBody
     /\ resp.req.currentCoords.def)
    => (/\ resp.before.status \in FiveStatuses
        /\ resp.code = 200
        /\ jobs[resp.jobId.key].currentCoords = resp.req.currentCoords
        /\ jobs[resp.jobId.key].status = resp.before.status)

\* Witness of C30: a cancelled job that had a position has just been given
\* another one.
C30_Witness ==
    /\ resp.op = "updateLiveCoordinate" /\ resp.code = 200
    /\ resp.before # NoBody /\ resp.before.status = "cancelled"
    /\ resp.before.currentCoords = FarAway
    /\ resp.req.currentCoords = OnTheRoad
    /\ jobs[resp.jobId.key].currentCoords = OnTheRoad
    /\ jobs[resp.jobId.key].status = "cancelled"

\* The stored jobs whose driverInfo.id equals the id.
JobsOfDriver(driverId) ==
    {k \in 1..Len(jobs) : jobs[k].driverInfo.id = driverId}

C26_SummaryAgreesWithList ==
    resp.op = "getSummary"
    => (/\ resp.code = 200
        /\ getJobsResponse(jobs, "pending", NoText).code = 200
        /\ getJobsResponse(jobs, "in-transit", NoText).code = 200
        /\ resp.body.pending
             = Len(getJobsResponse(jobs, "pending", NoText).body.list)
        /\ resp.body.inTransit
             = Len(getJobsResponse(jobs, "in-transit", NoText).body.list))

\* Witness of C26: with one pending job and two jobs in transit, the
\* summary has just been answered with these counts.
C26_Witness ==
    /\ resp.op = "getSummary"
    /\ Len(jobs) = 3
    /\ resp.body.pending = 1 /\ resp.body.inTransit = 2

\* The order of the steps of createJob.
CreateSteps == <<"format", "lookup", "geofence", "save">>

\* C27: createJob runs its checks in the order format of the driver id,
\* lookup in the directory, geofence, save.  What a call has done so far is
\* always an initial part of that order; a call whose driver id is not well
\* formed is answered 400 "Invalid driver ID" having done the format test
\* only, also when a place is out of the region; a call whose lookup
\* returned no driver never does the geofence; a call has saved only if its
\* id is well formed, its lookup returned a driver and both places are
\* inside the region; and the collection holds one job for each save.
C27_ChecksInOrder ==
    /\ \A c \in 1..Len(calls) :
          LET call == calls[c]
          IN /\ Len(call.trace) <= Len(CreateSteps)
             /\ \A i \in 1..Len(call.trace) : call.trace[i] = CreateSteps[i]
             /\ (call.req.driverInfo.def
                   /\ ~ObjectIdIsValid(call.req.driverInfo.id))
                => (/\ call.pc = "done" /\ call.code = 400
                    /\ call.message = "Invalid driver ID"
                    /\ call.trace = <<"format">>)
             /\ (Len(call.trace) >= 2 /\ call.driver # "driver")
                => (\A i \in 1..Len(call.trace) : call.trace[i] # "geofence")
             /\ (Len(call.trace) = 4)
                => (/\ ObjectIdIsValid(call.req.driverInfo.id)
                    /\ call.driver = "driver"
                    /\ InBox(call.req.pickupInfo)
                    /\ InBox(call.req.dropoffInfo))
    /\ Len(jobs) = Cardinality({c \in 1..Len(calls) :
                                   Len(calls[c].trace) = 4})

\* Witness of C27: a call with a malformed driver id and a pickup out of
\* the region has been answered after the format test alone, and another
\* call has gone through the four steps.
C27_Witness ==
    /\ Len(calls) = 2
    /\ calls[1].req.driverInfo = DriverInfo(BadIdText)
    /\ calls[1].req.pickupInfo = FarAway
    /\ calls[1].trace = <<"format">> /\ calls[1].code = 400
    /\ calls[2].trace = CreateSteps /\ calls[2].code = 201
    /\ Len(jobs) = 1

\* C29: whenever a job is written, the user its driverInfo.id names has the
\* role driver in the directory at that instant, whatever profile updates
\* ran between the lookup of createJob and its save.
C29_DriverAtWrite ==
    [][Len(jobs') > Len(jobs)
       => LET written == jobs'[Len(jobs')]
          IN /\ written.driverInfo.id.key \in DOMAIN users'
             /\ users'[written.driverInfo.id.key] = "driver"]_vars

\* The calls of an operation on a job whose store operation has run.
DoneCalls(op, jobId) ==
    {c \in 1..Len(calls) :
        calls[c].op = op /\ calls[c].jobId = jobId /\ calls[c].pc = "done"}

\* The positions sent by the updateLiveCoordinate calls taken in for a job.
PositionsSent(jobId) ==
    {calls[c].req.currentCoords :
        c \in {d \in 1..Len(calls) :
                  calls[d].op = "updateLiveCoordinate"
                  /\ calls[d].jobId = jobId}}

\* C24: each updateLiveCoordinate is one write of the whole position.
\* However updates and reads of a job interleave, the stored currentCoords
\* is the whole position sent by one of the updates that have run (it is
\* unset while none has), the update that runs leaves exactly its own
\* position, and every getLiveCoordinate is answered with the unset
\* position the job had before or with the whole position of one update.
C24_AtomicPositionWrites ==
    /\ [](\A jobId \in CoordJobIdInputs :
            /\ IF DoneCalls("updateLiveCoordinate", jobId) = {}
               THEN jobs[jobId.key].currentCoords = NoLoc
               ELSE \E c \in DoneCalls("updateLiveCoordinate", jobId) :
                       jobs[jobId.key].currentCoords
                         = calls[c].req.currentCoords
            /\ \A c \in DoneCalls("getLiveCoordinate", jobId) :
                  /\ calls[c].code = 200
                  /\ calls[c].body.coordinate
                       \in {NoLoc} \cup PositionsSent(jobId))
    /\ [][\A c \in 1..Len(calls) :
            (/\ calls[c].op = "updateLiveCoordinate"
             /\ calls[c].pc = "await" /\ calls'[c].pc = "done")
            => jobs'[calls[c].jobId.key].currentCoords
                 = calls[c].req.currentCoords]_vars

\* Witness of C24: two updates with different positions and a read have
\* all run; the read, taken in last, was answered with the position of the
\* first update and the job now has the position of the second.
C24_Witness ==
    /\ Len(calls) = 3
    /\ \A c \in 1..3 : calls[c].pc = "done"
    /\ calls[1].op = "updateLiveCoordinate"
    /\ calls[1].req.currentCoords = OnTheRoad
    /\ calls[2].op = "updateLiveCoordinate"
    /\ calls[2].req.currentCoords = FarAway
    /\ calls[3].op = "getLiveCoordinate"
    /\ calls[3].body.coordinate = OnTheRoad
    /\ jobs[1].currentCoords = FarAway

\* The members of a job that neither channel is to touch.
FixedMembers(job) ==
    <<job._id, job.driverInfo, job.pickupInfo, job.dropoffInfo>>

\* C28: the two channels write disjoint members.  The step in which an
\* updateStatus runs changes nothing but the status of its job, the step in
\* which an updateLiveCoordinate runs nothing but the currentCoords of its
\* job, and no other job changes.  So when one updateStatus and one
\* updateLiveCoordinate of a job have run, in whichever order and with
\* whatever else in flight, the job has the status of the one and the
\* position of the other.
C28_DisjointChannels ==
    /\ [][\A c \in 1..Len(calls) :
            (calls[c].pc = "await" /\ calls'[c].pc = "done")
            => LET new == jobs'[calls[c].jobId.key]
                   old == jobs[calls[c].jobId.key]
               IN /\ Len(jobs') = Len(jobs)
                  /\ \A k \in 1..Len(jobs) :
                        k # calls[c].jobId.key => jobs'[k] = jobs[k]
                  /\ FixedMembers(new) = FixedMembers(old)
                  /\ calls[c].op = "updateStatus"
                       => new.currentCoords = old.currentCoords
                  /\ calls[c].op = "updateLiveCoordinate"
                       => new.status = old.status]_vars
    /\ [](\A jobId \in CoordJobIdInputs :
            \A s \in DoneCalls("updateStatus", jobId),
               p \in DoneCalls("updateLiveCoordinate", jobId) :
               (/\ DoneCalls("updateStatus", jobId) = {s}
                /\ DoneCalls("updateLiveCoordinate", jobId) = {p}
                /\ calls[s].code = 200)
               => (/\ jobs[jobId.key].status = calls[s].req.status
                   /\ jobs[jobId.key].currentCoords
                        = calls[p].req.currentCoords))

\* Witness of C28: an updateStatus taken in first has run after an
\* updateLiveCoordinate taken in second, and the job has both the status
\* and the position.
C28_Witness ==
    /\ Len(calls) = 2
    /\ calls[1].op = "updateStatus" /\ calls[1].pc = "done"
    /\ calls[2].op = "updateLiveCoordinate" /\ calls[2].pc = "done"
    /\ resp.op = "updateStatus" /\ resp.code = 200
    /\ resp.body.currentCoords = OnTheRoad
    /\ jobs[1].status = "delivered" /\ jobs[1].currentCoords = OnTheRoad
    /\ jobs[2].status = "pending" /\ jobs[2].currentCoords = NoLoc
====
